---------------------------- MODULE Spec2Model ----------------------------
(***************************************************************************)
(* A model of the two training scripts of the repository:                  *)
(*   baselines/cifar/variational_inference.py   (Wide ResNet, CIFAR)       *)
(*   baselines/imagenet/batchensemble.py        (ResNet-50, ImageNet)      *)
(*                                                                         *)
(* Real numbers are kept exact: a rational is a pair <<n, d>> with d >= 0, *)
(* and <<n, 0>> with n > 0 is the +inf a float division by zero returns.   *)
(***************************************************************************)
EXTENDS Integers, Sequences, FiniteSets, TLC

VARIABLES
    \* ---- variational_inference.py: main() ----
    FLAGS,              \* the command-line flags the run was started with
    steps_per_epoch,    \* train_dataset_size // batch_size
    steps_per_eval,     \* test examples // batch_size
    pc,                 \* position of main(): "train", "eval", "summary",
                        \* "checkpoint", "done", "crashed"
    epoch,              \* loop variable of the epoch loop
    step,               \* loop variable of the inner training loop
    global_step,        \* the tf.Variable global_step
    iterations,         \* optimizer.iterations
    latest_checkpoint,  \* the newest checkpoint in output_dir, or NoCheckpoint
    restarts,           \* how often the script was started again
    test_datasets,      \* dict of test datasets, as its keys in insertion order
    to_evaluate,        \* keys of datasets_to_evaluate still to be run
    metrics,            \* metrics[name]: updates since the last reset_states()
    corrupt_metrics,    \* corrupt_metrics[key]: the same for the corrupted sets
    error,              \* exception that ended main(), or "none"
    \* ---- what the run has left behind (files, summaries, logs) ----
    kl_log,             \* kl_log[k]: the KL weight used by the k-th update
    eval_log,           \* eval_log[e]: datasets evaluated at the end of epoch e
    summary,            \* summary[e]: what was written with step = e + 1
    ckpt_log,           \* ckpt_log[e]: whether epoch e ended with a save
    \* ---- one train_step of either script on the replicas ----
    script,             \* "cifar" or "imagenet"
    num_replicas_in_sync,   \* strategy.num_replicas_in_sync
    trainable_variables,    \* model.trainable_variables: name -> value
    model_losses,       \* sum(model.losses), the KL of the layers
    replica_nll,        \* per replica: the likelihood term of its batch
    replica_loss,       \* per replica: `loss`, or NotRun
    replica_scaled_loss,    \* per replica: `scaled_loss`, or NotRun
    reduced_loss,       \* the sum over the replicas that is differentiated
    \* ---- batchensemble.py: main() and its learning rate schedule ----
    im_FLAGS,           \* the flags of the ImageNet script
    batch_size,         \* the global train batch size
    im_steps_per_epoch, \* steps_per_epoch of the ImageNet script
    initial_learning_rate,  \* base_lr, handed to ResnetLearningRateSchedule
    im_iterations,      \* optimizer.iterations of the ImageNet script
    lr_log,             \* lr_log[s]: the rate the schedule returned for step s
    \* ---- variational_inference.py: one test_step ----
    last_dataset,       \* dataset_name of the last test step
    model_calls,        \* the logits of each call of the model in that step,
                        \* each logit kept as its exponential
    probs,              \* `probs` of that step, one rational per class
    updated,            \* the metric objects that step updated
    test_steps,         \* test steps run so far
    \* ---- variational_inference.py: wide_resnet ----
    depth,              \* argument of wide_resnet
    width_multiplier,   \* argument of wide_resnet
    wrn_pc,             \* "call", "groups", "head", "built", "raised"
    layers,             \* the layers created so far, in order
    blocks,             \* the basic blocks built so far: group and strides
    x_shape,            \* shape of x: <<height = width, channels>>
    group_index,        \* the group being built: 1, 2, 3
    blocks_left,        \* blocks of that group still to build
    \* ---- variational_inference.py: NormalKLDivergenceWithTiedMean ----
    regularizer,        \* the object: its stddev and scale_factor
    kl_calls,           \* the calls made so far: input and outcome
    \* ---- batchensemble.py: the gradients of one train_step ----
    fast_weight_lr_multiplier,  \* FLAGS.fast_weight_lr_multiplier
    model_variables,    \* names of model.trainable_variables, in order
    grads,              \* tape.gradient(...): one value per variable
    grad_list,          \* the local list grad_list
    applied,            \* the argument of optimizer.apply_gradients
    apply_calls         \* calls of optimizer.apply_gradients so far

cifarVars == <<FLAGS, steps_per_epoch, steps_per_eval, pc, epoch, step,
               global_step, iterations, latest_checkpoint, restarts,
               test_datasets, to_evaluate, metrics, corrupt_metrics, error,
               kl_log, eval_log, summary, ckpt_log>>

lossVars == <<script, num_replicas_in_sync, trainable_variables,
              model_losses, replica_nll, replica_loss, replica_scaled_loss,
              reduced_loss>>

lrVars == <<im_FLAGS, batch_size, im_steps_per_epoch, initial_learning_rate,
            im_iterations, lr_log>>

testVars == <<last_dataset, model_calls, probs, updated, test_steps>>

wrnVars == <<depth, width_multiplier, wrn_pc, layers, blocks, x_shape,
             group_index, blocks_left>>

klVars == <<regularizer, kl_calls>>

gradVars == <<fast_weight_lr_multiplier, model_variables, grads, grad_list,
              applied, apply_calls>>

vars == <<cifarVars, lossVars, lrVars, testVars, wrnVars, klVars, gradVars>>

\* What the actions of each part leave alone.
notCifar == <<lossVars, lrVars, testVars, wrnVars, klVars, gradVars>>
notLoss == <<cifarVars, lrVars, testVars, wrnVars, klVars, gradVars>>
notLr == <<cifarVars, lossVars, testVars, wrnVars, klVars, gradVars>>
notTest == <<lossVars, lrVars, wrnVars, klVars, gradVars>>
notWrn == <<cifarVars, lossVars, lrVars, testVars, klVars, gradVars>>
notKl == <<cifarVars, lossVars, lrVars, testVars, wrnVars, gradVars>>
notGrad == <<cifarVars, lossVars, lrVars, testVars, wrnVars, klVars>>

-----------------------------------------------------------------------------
(* Bounds of the model.                                                    *)
MaxTrainEpochs == 3
MaxStepsPerEpoch == 2
MaxRestarts == 1
MaxReplicas == 2
MaxEvalSamples == 2
MaxTestSteps == 2
MaxDepth == 22
MaxWidthMultiplier == 2
MaxKlCalls == 2
MaxVariables == 2

-----------------------------------------------------------------------------
(* Exact arithmetic.                                                       *)

\* x / y of two integers as tf's float division keeps it: a pair.
Div(x, y) == <<x, y>>

RatLeq(a, b) == a[1] * b[2] <= b[1] * a[2]
RatEq(a, b) == a[1] * b[2] = b[1] * a[2]
RatMul(a, b) == <<a[1] * b[1], a[2] * b[2]>>
RatAdd(a, b) == <<a[1] * b[2] + b[1] * a[2], a[2] * b[2]>>
One == <<1, 1>>

\* tf.minimum
Minimum(a, b) == IF RatLeq(a, b) THEN a ELSE b

\* Python's a % b: the sign of the result follows b, b = 0 raises.
PyMod(a, b) ==
    IF b > 0 THEN [raised |-> FALSE, value |-> a % b]
    ELSE IF b < 0 THEN [raised |-> FALSE, value |-> -((-a) % (-b))]
    ELSE [raised |-> TRUE, value |-> 0]

-----------------------------------------------------------------------------
(* variational_inference.py: main().                                       *)

NoCheckpoint == [saved |-> FALSE, global_step |-> 0, iterations |-> 0]

\* utils.load_corrupted_test_info: the corruption types and max intensity.
corruption_types == <<"noise", "blur">>
max_intensity == 1

Clean == <<"clean", 0>>

\* lines 288-296: the corrupted datasets, in the order they enter the dict.
RECURSIVE CorruptedKeys(_, _)
CorruptedKeys(c, i) ==
    IF c > Len(corruption_types) THEN <<>>
    ELSE IF i > max_intensity THEN CorruptedKeys(c + 1, 1)
    ELSE <<(<<corruption_types[c], i>>)>> \o CorruptedKeys(c, i + 1)

\* lines 276-296
LoadTestDatasets(flags) ==
    IF flags.corruptions_interval > 0
    THEN <<Clean>> \o CorruptedKeys(1, 1)
    ELSE <<Clean>>

TrainMetricNames == {"train/negative_log_likelihood", "train/accuracy",
                     "train/loss", "train/ece", "train/kl", "train/kl_scale"}
CleanTestMetricNames == {"test/negative_log_likelihood", "test/accuracy",
                         "test/ece"}
CorruptKinds == {"test/nll", "test/accuracy", "test/ece"}

\* lines 337-349
NewMetrics == [n \in TrainMetricNames \cup CleanTestMetricNames |-> 0]

\* lines 350-361
NewCorruptMetrics(flags) ==
    IF flags.corruptions_interval > 0
    THEN [k \in {<<kind, corruption_types[c], i>> :
                   kind \in CorruptKinds,
                   c \in 1..Len(corruption_types),
                   i \in 1..max_intensity} |-> 0]
    ELSE <<>>

\* The restore of a checkpoint that holds the model and the optimizer only.
RestoredGlobalStepNotSaved(ckpt) == 0

\* lines 363-371: what checkpoint.save() writes.
CheckpointContents ==
    [saved |-> TRUE, global_step |-> global_step, iterations |-> iterations]

\* lines 372-379: the value of global_step after the restore.
RestoredGlobalStep(ckpt) == IF ckpt.saved THEN ckpt.global_step ELSE 0

\* lines 404-410: the weight of the KL term in the current step.
KlScale ==
    Minimum(One, Div(global_step + 1,
                     steps_per_epoch * FLAGS.kl_annealing_epochs))

\* The interval test taken on the 0-indexed epoch instead of epoch + 1.
CorruptionsDueZeroIndexed(e) ==
    IF ~(FLAGS.corruptions_interval > 0) THEN "no"
    ELSE LET m == PyMod(e, FLAGS.corruptions_interval)
         IN  IF m.raised THEN "ZeroDivisionError"
             ELSE IF m.value = 0 THEN "yes" ELSE "no"

\* The interval test without its `> 0` guard.
CheckpointDueUnguarded(e) ==
    LET m == PyMod(e + 1, FLAGS.checkpoint_interval)
    IN  IF m.raised THEN "ZeroDivisionError"
        ELSE IF m.value = 0 THEN "yes" ELSE "no"

\* lines 492-493 and 506-507
CorruptionsDue(e) ==
    IF ~(FLAGS.corruptions_interval > 0) THEN "no"
    ELSE LET m == PyMod(e + 1, FLAGS.corruptions_interval)
         IN  IF m.raised THEN "ZeroDivisionError"
             ELSE IF m.value = 0 THEN "yes" ELSE "no"

\* lines 527-528
CheckpointDue(e) ==
    IF ~(FLAGS.checkpoint_interval > 0) THEN "no"
    ELSE LET m == PyMod(e + 1, FLAGS.checkpoint_interval)
         IN  IF m.raised THEN "ZeroDivisionError"
             ELSE IF m.value = 0 THEN "yes" ELSE "no"

\* lines 453-464: the metric objects one test step on dataset_name updates.
TestStepUpdates(dataset_name) ==
    IF dataset_name = Clean
    THEN [clean |-> CleanTestMetricNames, corrupt |-> {}]
    ELSE [clean |-> {},
          corrupt |-> {<<kind, dataset_name[1], dataset_name[2]>> :
                         kind \in CorruptKinds}]

\* lines 245-380 and 468-470: main() up to the first iteration of the epoch
\* loop, started with `ckpt` as the latest checkpoint of output_dir.
Setup(flags, spe, spv, ckpt) ==
    LET initial_epoch == IF ckpt.saved THEN ckpt.iterations \div spe ELSE 0
    IN  /\ FLAGS' = flags
        /\ steps_per_epoch' = spe
        /\ steps_per_eval' = spv
        /\ test_datasets' = LoadTestDatasets(flags)
        /\ metrics' = NewMetrics
        /\ corrupt_metrics' = NewCorruptMetrics(flags)
        /\ global_step' = RestoredGlobalStep(ckpt)
        /\ iterations' = IF ckpt.saved THEN ckpt.iterations ELSE 0
        /\ epoch' = initial_epoch
        /\ step' = 0
        /\ to_evaluate' = <<>>
        /\ error' = "none"
        /\ pc' = IF initial_epoch < flags.train_epochs THEN "train" ELSE "done"

FlagValues ==
    [train_epochs : 1..MaxTrainEpochs,
     kl_annealing_epochs : {0, 1, 2},
     checkpoint_interval : {-1, 0, 1, 2},
     corruptions_interval : {-1, 0, 1, 2}]

CifarInit ==
    /\ FLAGS \in FlagValues
    /\ steps_per_epoch \in 1..MaxStepsPerEpoch
    /\ steps_per_eval = 1
    /\ test_datasets = LoadTestDatasets(FLAGS)
    /\ metrics = NewMetrics
    /\ corrupt_metrics = NewCorruptMetrics(FLAGS)
    /\ global_step = 0
    /\ iterations = 0
    /\ epoch = 0
    /\ step = 0
    /\ to_evaluate = <<>>
    /\ error = "none"
    /\ pc = "train"
    /\ latest_checkpoint = NoCheckpoint
    /\ restarts = 0
    /\ kl_log = <<>>
    /\ eval_log = <<>>
    /\ summary = <<>>
    /\ ckpt_log = <<>>

\* The function f with f[k] set to v, k added to its domain if need be.
Put(f, k, v) == [x \in DOMAIN f \cup {k} |-> IF x = k THEN v ELSE f[x]]

Bump(f, keys) == [x \in DOMAIN f |-> IF x \in keys THEN f[x] + 1 ELSE f[x]]

\* lines 472-473 with 382-430: one train_step, and lines 491-494 once the
\* inner loop is over.
TrainStep ==
    /\ pc = "train"
    /\ step < steps_per_epoch
    /\ kl_log' = Put(kl_log, iterations + 1, KlScale)
    /\ iterations' = iterations + 1
    /\ global_step' = global_step + 1
    /\ metrics' = Bump(metrics, TrainMetricNames)
    /\ step' = step + 1
    /\ LET due == CorruptionsDue(epoch)
       IN  IF step + 1 < steps_per_epoch
           THEN UNCHANGED <<pc, to_evaluate, error>>
           ELSE IF due = "ZeroDivisionError"
           THEN /\ pc' = "crashed"
                /\ error' = due
                /\ UNCHANGED to_evaluate
           ELSE /\ pc' = "eval"
                /\ to_evaluate' = IF due = "yes" THEN test_datasets
                                  ELSE <<Clean>>
                /\ UNCHANGED error
    /\ UNCHANGED <<FLAGS, steps_per_epoch, steps_per_eval, epoch,
                   latest_checkpoint, restarts, test_datasets,
                   corrupt_metrics, eval_log, summary, ckpt_log>>
    /\ UNCHANGED notCifar

RECURSIVE Times(_, _, _)
\* f after n test steps that each update `keys`.
Times(f, keys, n) == IF n = 0 THEN f ELSE Times(Bump(f, keys), keys, n - 1)

\* lines 495-503: the next dataset of datasets_to_evaluate, steps_per_eval
\* test steps on it.
EvalDataset ==
    /\ pc = "eval"
    /\ to_evaluate # <<>>
    /\ LET dataset_name == Head(to_evaluate)
           upd == TestStepUpdates(dataset_name)
       IN  /\ metrics' = Times(metrics, upd.clean, steps_per_eval)
           /\ corrupt_metrics' =
                  Times(corrupt_metrics, upd.corrupt, steps_per_eval)
           /\ eval_log' = Put(eval_log, epoch,
                              (IF epoch \in DOMAIN eval_log
                               THEN eval_log[epoch] ELSE {})
                              \cup {dataset_name})
    /\ to_evaluate' = Tail(to_evaluate)
    /\ pc' = IF Tail(to_evaluate) = <<>> THEN "summary" ELSE "eval"
    /\ UNCHANGED <<FLAGS, steps_per_epoch, steps_per_eval, epoch, step,
                   global_step, iterations, latest_checkpoint, restarts,
                   test_datasets, error, kl_log, summary, ckpt_log>>
    /\ UNCHANGED notCifar

\* utils.aggregate_corrupt_metrics: the corrupted metrics it reads, each with
\* the number of updates its result is computed from.
AggregateCorruptMetrics == corrupt_metrics

\* lines 505-525: the results of the epoch are written, then every metric of
\* `metrics` is reset.
WriteSummaries ==
    /\ pc = "summary"
    /\ LET due == CorruptionsDue(epoch)
           corrupt_results == IF due = "yes" THEN AggregateCorruptMetrics
                              ELSE <<>>
       IN  IF due = "ZeroDivisionError"
           THEN /\ pc' = "crashed"
                /\ error' = due
                /\ UNCHANGED <<summary, metrics>>
           ELSE /\ summary' = Put(summary, epoch,
                                  [total |-> metrics,
                                   corrupt |-> corrupt_results])
                /\ metrics' = [n \in DOMAIN metrics |-> 0]
                /\ pc' = "checkpoint"
                /\ UNCHANGED error
    /\ UNCHANGED <<FLAGS, steps_per_epoch, steps_per_eval, epoch, step,
                   global_step, iterations, latest_checkpoint, restarts,
                   test_datasets, to_evaluate, corrupt_metrics, kl_log,
                   eval_log, ckpt_log>>
    /\ UNCHANGED notCifar

\* lines 527-531, and the epoch loop going round (line 470).
SaveCheckpoint ==
    /\ pc = "checkpoint"
    /\ LET due == CheckpointDue(epoch)
       IN  IF due = "ZeroDivisionError"
           THEN /\ pc' = "crashed"
                /\ error' = due
                /\ UNCHANGED <<latest_checkpoint, ckpt_log, epoch, step>>
           ELSE /\ latest_checkpoint' = IF due = "yes" THEN CheckpointContents
                                        ELSE latest_checkpoint
                /\ ckpt_log' = Put(ckpt_log, epoch, due = "yes")
                /\ epoch' = epoch + 1
                /\ step' = 0
                /\ pc' = IF epoch + 1 < FLAGS.train_epochs THEN "train"
                         ELSE "done"
                /\ UNCHANGED error
    /\ UNCHANGED <<FLAGS, steps_per_epoch, steps_per_eval, global_step,
                   iterations, restarts, test_datasets, to_evaluate, metrics,
                   corrupt_metrics, kl_log, eval_log, summary>>
    /\ UNCHANGED notCifar

\* The process ends (it finished, or was stopped at any point) and the script
\* is started again with the same flags and output_dir.
Restart ==
    /\ restarts < MaxRestarts
    /\ restarts' = restarts + 1
    /\ Setup(FLAGS, steps_per_epoch, steps_per_eval, latest_checkpoint)
    /\ UNCHANGED <<latest_checkpoint, kl_log, eval_log, summary, ckpt_log>>
    /\ UNCHANGED notCifar

CifarNext ==
    \/ TrainStep
    \/ EvalDataset
    \/ WriteSummaries
    \/ SaveCheckpoint
    \/ Restart

\* The replicas' losses are not part of this specification.
LossIdle ==
    /\ script = "cifar"
    /\ num_replicas_in_sync = 1
    /\ trainable_variables = <<>>
    /\ model_losses = 0
    /\ replica_nll = <<>>
    /\ replica_loss = <<>>
    /\ replica_scaled_loss = <<>>
    /\ reduced_loss = <<0, 1>>

\* The ImageNet script is not part of this specification.
LrIdle ==
    /\ im_FLAGS = <<>>
    /\ batch_size = 0
    /\ im_steps_per_epoch = 0
    /\ initial_learning_rate = <<0, 1>>
    /\ im_iterations = 0
    /\ lr_log = <<>>

\* main() of variational_inference.py is not part of this specification.
CifarIdle ==
    /\ FLAGS = <<>>
    /\ steps_per_epoch = 1
    /\ steps_per_eval = 1
    /\ pc = "done"
    /\ epoch = 0
    /\ step = 0
    /\ global_step = 0
    /\ iterations = 0
    /\ latest_checkpoint = NoCheckpoint
    /\ restarts = 0
    /\ test_datasets = <<Clean>>
    /\ to_evaluate = <<>>
    /\ metrics = NewMetrics
    /\ corrupt_metrics = <<>>
    /\ error = "none"
    /\ kl_log = <<>>
    /\ eval_log = <<>>
    /\ summary = <<>>
    /\ ckpt_log = <<>>

\* No single test step is followed in this specification.
TestIdle ==
    /\ last_dataset = <<"none", 0>>
    /\ model_calls = <<>>
    /\ probs = <<>>
    /\ updated = [clean |-> {}, corrupt |-> {}]
    /\ test_steps = 0

\* No model is being built in this specification.
WrnIdle ==
    /\ depth = 28
    /\ width_multiplier = 10
    /\ wrn_pc = "built"
    /\ layers = <<>>
    /\ blocks = <<>>
    /\ x_shape = <<0, 0>>
    /\ group_index = 0
    /\ blocks_left = 0

\* The regularizer is not called in this specification.
KlIdle ==
    /\ regularizer = [stddev |-> 1, scale_factor |-> <<1, 1>>]
    /\ kl_calls = {}

\* No gradients are followed in this specification.
GradIdle ==
    /\ fast_weight_lr_multiplier = <<1, 1>>
    /\ model_variables = <<>>
    /\ grads = <<>>
    /\ grad_list = <<>>
    /\ applied = <<>>
    /\ apply_calls = 0

Init ==
    /\ CifarInit
    /\ LossIdle
    /\ LrIdle
    /\ TestIdle
    /\ WrnIdle
    /\ KlIdle
    /\ GradIdle

Spec == Init /\ [][CifarNext]_vars

-----------------------------------------------------------------------------
(* Properties of the CIFAR run.                                            *)

AnnealingSteps == steps_per_epoch * FLAGS.kl_annealing_epochs

\* min(1, k / (steps_per_epoch * kl_annealing_epochs))
AnnealedWeight(k) ==
    IF k >= AnnealingSteps THEN One ELSE Div(k, AnnealingSteps)

\* C1: the KL term of the k-th update of the model (k counts the updates the
\* optimizer has applied, across epochs and across restarts from a
\* checkpoint) is weighted by min(1, k / (steps_per_epoch *
\* kl_annealing_epochs)); the weight of update k + 1 is never below that of
\* update k; and the weight is 1 for every k >= steps_per_epoch *
\* kl_annealing_epochs.
C1_KlAnnealing ==
    \A k \in DOMAIN kl_log :
        /\ kl_log[k][2] > 0
        /\ RatEq(kl_log[k], AnnealedWeight(k))
        /\ (k + 1) \in DOMAIN kl_log => RatLeq(kl_log[k], kl_log[k + 1])
        /\ k >= AnnealingSteps => RatEq(kl_log[k], One)

\* A run restarted from a checkpoint has made an update with a weight below
\* 1 after the restart, and a later one with weight 1.
C1_Witness ==
    /\ restarts > 0
    /\ latest_checkpoint.saved
    /\ \E k \in DOMAIN kl_log :
          /\ k > latest_checkpoint.iterations
          /\ k <= iterations
          /\ ~RatEq(kl_log[k], One)
          /\ (k + 1) \in DOMAIN kl_log
          /\ k + 1 <= iterations
          /\ RatEq(kl_log[k + 1], One)

\* C3: epoch e ends with a checkpoint save exactly when checkpoint_interval
\* > 0 and e + 1 is a multiple of it; with a non-positive interval (-1 or 0)
\* no checkpoint is ever saved, and no error ends the run.
C3_CheckpointInterval ==
    /\ \A e \in DOMAIN ckpt_log :
          ckpt_log[e] <=> (/\ FLAGS.checkpoint_interval > 0
                           /\ (e + 1) % FLAGS.checkpoint_interval = 0)
    /\ FLAGS.checkpoint_interval <= 0 => ~latest_checkpoint.saved
    /\ latest_checkpoint.saved => \E e \in DOMAIN ckpt_log : ckpt_log[e]
    /\ error = "none"
    /\ pc # "crashed"

\* With checkpoint_interval = 2, epoch 0 ended without a save and epoch 1
\* with one.
C3_Witness ==
    /\ FLAGS.checkpoint_interval = 2
    /\ {0, 1} \subseteq DOMAIN ckpt_log
    /\ ~ckpt_log[0]
    /\ ckpt_log[1]
    /\ latest_checkpoint.saved

\* A whole run with checkpoint_interval = 0 ended without a save.
C3_WitnessNever ==
    /\ FLAGS.checkpoint_interval = 0
    /\ pc = "done"
    /\ DOMAIN ckpt_log = 0..(FLAGS.train_epochs - 1)

CorruptedSets == {test_datasets[i] : i \in 1..Len(test_datasets)} \ {Clean}

CorruptionsEpoch(e) ==
    /\ FLAGS.corruptions_interval > 0
    /\ (e + 1) % FLAGS.corruptions_interval = 0

\* C4: the clean test set is evaluated at the end of every epoch; the
\* corrupted test sets are evaluated, and their aggregated results written,
\* at the end of epoch e exactly when corruptions_interval > 0 and e + 1 is a
\* multiple of it; with corruptions_interval = -1 they are never loaded,
\* evaluated or reported.
C4_CorruptionsInterval ==
    /\ \A e \in DOMAIN summary :
          /\ e \in DOMAIN eval_log
          /\ Clean \in eval_log[e]
          /\ CorruptionsEpoch(e) =>
                /\ CorruptedSets # {}
                /\ eval_log[e] = {Clean} \cup CorruptedSets
                /\ DOMAIN summary[e].corrupt # {}
          /\ ~CorruptionsEpoch(e) =>
                /\ eval_log[e] = {Clean}
                /\ DOMAIN summary[e].corrupt = {}
    /\ \A e \in DOMAIN eval_log :
          ~CorruptionsEpoch(e) => eval_log[e] \subseteq {Clean}
    /\ FLAGS.corruptions_interval = -1 =>
          /\ test_datasets = <<Clean>>
          /\ \A e \in DOMAIN eval_log : eval_log[e] \subseteq {Clean}
          /\ \A e \in DOMAIN summary : DOMAIN summary[e].corrupt = {}
          /\ \A i \in 1..Len(to_evaluate) : to_evaluate[i] = Clean

\* With corruptions_interval = 2, epoch 0 evaluated the clean set only and
\* epoch 1 the corrupted ones too.
C4_Witness ==
    /\ FLAGS.corruptions_interval = 2
    /\ {0, 1} \subseteq DOMAIN summary
    /\ eval_log[0] = {Clean}
    /\ Cardinality(eval_log[1]) = 1 + Len(corruption_types) * max_intensity
    /\ DOMAIN summary[0].corrupt = {}
    /\ DOMAIN summary[1].corrupt # {}

\* A whole run with corruptions_interval = -1.
C4_WitnessNever ==
    /\ FLAGS.corruptions_interval = -1
    /\ pc = "done"
    /\ DOMAIN summary = 0..(FLAGS.train_epochs - 1)

\* The updates a metric of `metrics` gets in one epoch.
UpdatesPerEpoch(n) ==
    IF n \in TrainMetricNames THEN steps_per_epoch ELSE steps_per_eval

\* C12: every value written to the summaries for an epoch (train metrics,
\* clean test metrics, aggregated corrupted-test metrics) is computed only
\* from the metric updates of that epoch: each metric is reset before the
\* first update of a later epoch, so no earlier evaluation accumulates into
\* a later one.
C12_SummariesOfOneEpoch ==
    \A e \in DOMAIN summary :
        /\ \A n \in DOMAIN summary[e].total :
              summary[e].total[n] = UpdatesPerEpoch(n)
        /\ \A k \in DOMAIN summary[e].corrupt :
              summary[e].corrupt[k] = steps_per_eval

\* What the code does: the metrics of `metrics` are reset at the end of
\* every epoch (lines 524-525), those of corrupt_metrics never, so a
\* corrupted result holds every update since the process started.
C12_CodeResetsMetricsOnly ==
    /\ \A e \in DOMAIN summary :
          /\ \A n \in DOMAIN summary[e].total :
                summary[e].total[n] = UpdatesPerEpoch(n)
          /\ \A k \in DOMAIN summary[e].corrupt :
                summary[e].corrupt[k] >= steps_per_eval
    /\ pc = "train" /\ step = 0 => \A n \in DOMAIN metrics : metrics[n] = 0

\* The second corrupted evaluation of a process has been written.
C12_SecondCorruptedEvaluation ==
    /\ FLAGS.corruptions_interval = 1
    /\ restarts = 0
    /\ 1 \in DOMAIN summary
    /\ \A k \in DOMAIN summary[1].corrupt :
          summary[1].corrupt[k] = 2 * steps_per_eval
    /\ DOMAIN summary[1].corrupt # {}

-----------------------------------------------------------------------------
(* One train_step of either script, run on every replica.                  *)
(* variational_inference.py lines 381-430, batchensemble.py lines 224-281. *)

NotRun == <<0, 0>>

\* Names of trainable variables, each with the substrings it contains
\* among those the scripts test for.
Substrings ==
    [cifar |-> [batch_normalization_gamma |-> {"batch_norm", "gamma"},
                conv2d_flipout_kernel |-> {},
                dense_flipout_bias |-> {"bias"}],
     imagenet |-> [bn_conv1_gamma |-> {"bn", "gamma"},
                   conv1_kernel |-> {},
                   fc1000_bias |-> {"bias"}]]

\* `sub in var.name`
In(sub, name) == sub \in Substrings[script][name]

\* variational_inference.py line 401
CifarL2Filter(name) == In("batch_norm", name) \/ In("bias", name)

\* batchensemble.py lines 248-249
ImagenetL2Filter(name) ==
    /\ (~In("bn", name) \/ ~In("batch_norm", name))
    /\ ~In("alpha", name)
    /\ ~In("gamma", name)

RECURSIVE SumSquares(_)
\* The sum of v[name]^2 over the variables of the function v.
SumSquares(v) ==
    IF DOMAIN v = {} THEN 0
    ELSE LET n == CHOOSE x \in DOMAIN v : TRUE
         IN  v[n] * v[n] + SumSquares([x \in DOMAIN v \ {n} |-> v[x]])

\* tf.nn.l2_loss(tf.concat(filtered_variables, axis=0)): sum(t ** 2) / 2
TfL2Loss(names) ==
    Div(SumSquares([n \in names |-> trainable_variables[n]]), 2)

\* variational_inference.py lines 396-405, batchensemble.py lines 246-252
L2Loss ==
    IF script = "cifar"
    THEN RatMul(RatMul(FLAGS.l2, <<2, 1>>),
                TfL2Loss({n \in DOMAIN trainable_variables :
                            CifarL2Filter(n)}))
    ELSE RatMul(RatMul(FLAGS.weight_decay, <<2, 1>>),
                TfL2Loss({n \in DOMAIN trainable_variables :
                            ImagenetL2Filter(n)}))

\* variational_inference.py lines 406-410
KlLoss == RatMul(KlScale, <<model_losses, 1>>)

\* variational_inference.py line 413, batchensemble.py line 255
Loss(r) ==
    IF script = "cifar"
    THEN RatAdd(RatAdd(<<replica_nll[r], 1>>, L2Loss), KlLoss)
    ELSE RatAdd(<<replica_nll[r], 1>>, L2Loss)

\* The loss handed to the tape as it is, without the division.
UnscaledLoss(loss) == loss

\* variational_inference.py line 414, batchensemble.py line 256
ScaledLoss(loss) == RatMul(loss, <<1, num_replicas_in_sync>>)

RECURSIVE RatSum(_)
RatSum(q) == IF q = <<>> THEN <<0, 1>> ELSE RatAdd(Head(q), RatSum(Tail(q)))

RECURSIVE Sum(_)
Sum(q) == IF q = <<>> THEN 0 ELSE Head(q) + Sum(Tail(q))

RECURSIVE Seqs(_, _)
\* The sequences of length n over S.
Seqs(S, n) ==
    IF n = 0 THEN {<<>>}
    ELSE {Append(q, x) : q \in Seqs(S, n - 1), x \in S}

LossFlagValues ==
    [kl_annealing_epochs : {2},
     l2 : {<<1, 2>>},
     weight_decay : {<<1, 3>>}]

LossInit ==
    /\ script \in {"cifar", "imagenet"}
    /\ num_replicas_in_sync \in 1..MaxReplicas
    /\ trainable_variables \in [DOMAIN Substrings[script] -> {1, 2}]
    /\ model_losses \in (IF script = "cifar" THEN {0, 3} ELSE {0})
    /\ replica_nll \in Seqs({0, 1, 2}, num_replicas_in_sync)
    /\ replica_loss = [r \in 1..num_replicas_in_sync |-> NotRun]
    /\ replica_scaled_loss = [r \in 1..num_replicas_in_sync |-> NotRun]
    /\ reduced_loss = NotRun
    \* what KlScale reads
    /\ FLAGS \in LossFlagValues
    /\ steps_per_epoch = 1
    /\ global_step \in (IF script = "cifar" THEN {0, 1} ELSE {0})
    /\ LrIdle
    /\ TestIdle
    /\ WrnIdle
    /\ KlIdle
    /\ GradIdle
    \* the rest of main() is not part of this specification
    /\ steps_per_eval = 1
    /\ pc = "train"
    /\ epoch = 0
    /\ step = 0
    /\ iterations = global_step
    /\ latest_checkpoint = NoCheckpoint
    /\ restarts = 0
    /\ test_datasets = <<Clean>>
    /\ to_evaluate = <<>>
    /\ metrics = NewMetrics
    /\ corrupt_metrics = <<>>
    /\ error = "none"
    /\ kl_log = <<>>
    /\ eval_log = <<>>
    /\ summary = <<>>
    /\ ckpt_log = <<>>

\* step_fn on replica r up to the gradient: its loss and scaled_loss.
ReplicaStepFn(r) ==
    /\ replica_loss[r] = NotRun
    /\ replica_loss' = [replica_loss EXCEPT ![r] = Loss(r)]
    /\ replica_scaled_loss' =
           [replica_scaled_loss EXCEPT ![r] = ScaledLoss(Loss(r))]
    /\ UNCHANGED <<script, num_replicas_in_sync, trainable_variables,
                   model_losses, replica_nll, reduced_loss>>
    /\ UNCHANGED notLoss

\* The strategy sums what the replicas computed: the gradients applied are
\* those of the sum of the replicas' scaled losses.
ReduceSum ==
    /\ reduced_loss = NotRun
    /\ \A r \in 1..num_replicas_in_sync : replica_loss[r] # NotRun
    /\ reduced_loss' = RatSum(replica_scaled_loss)
    /\ UNCHANGED <<script, num_replicas_in_sync, trainable_variables,
                   model_losses, replica_nll, replica_loss,
                   replica_scaled_loss>>
    /\ UNCHANGED notLoss

LossNext ==
    \/ \E r \in 1..num_replicas_in_sync : ReplicaStepFn(r)
    \/ ReduceSum

SpecLoss == LossInit /\ [][LossNext]_vars

\* The L2 term in plain form: coefficient * sum of squares of the
\* variables the script's filter keeps.
L2Term ==
    IF script = "cifar"
    THEN RatMul(FLAGS.l2,
                <<SumSquares([n \in {x \in DOMAIN trainable_variables :
                                      CifarL2Filter(x)}
                              |-> trainable_variables[n]]), 1>>)
    ELSE RatMul(FLAGS.weight_decay,
                <<SumSquares([n \in {x \in DOMAIN trainable_variables :
                                      ImagenetL2Filter(x)}
                              |-> trainable_variables[n]]), 1>>)

\* kl_scale * KL, counted once; the ImageNet script has no KL term.
ScaledKlTerm ==
    IF script = "cifar"
    THEN RatMul(AnnealedWeight(global_step + 1), <<model_losses, 1>>)
    ELSE <<0, 1>>

\* C2: each replica's loss is its likelihood term + the L2 term + (CIFAR)
\* kl_scale * KL, what it differentiates is that loss / num_replicas_in_sync,
\* and the sum of these over the R replicas is the replica-mean of the
\* likelihood terms + the L2 term once + the scaled KL term once.
C2_LossComposition ==
    /\ \A r \in 1..num_replicas_in_sync :
          replica_loss[r] # NotRun =>
            /\ replica_loss[r][2] > 0
            /\ RatEq(replica_loss[r],
                     RatAdd(RatAdd(<<replica_nll[r], 1>>, L2Term),
                            ScaledKlTerm))
            /\ RatEq(RatMul(replica_scaled_loss[r],
                            <<num_replicas_in_sync, 1>>),
                     replica_loss[r])
    /\ reduced_loss # NotRun =>
          /\ reduced_loss[2] > 0
          /\ RatEq(reduced_loss,
                   RatAdd(RatAdd(<<Sum(replica_nll), num_replicas_in_sync>>,
                                 L2Term),
                          ScaledKlTerm))

\* A CIFAR step on more than one replica, with unequal likelihood terms, a
\* non-zero KL annealed below 1 and a non-zero L2 term, has been reduced.
C2_Witness ==
    /\ script = "cifar"
    /\ num_replicas_in_sync > 1
    /\ reduced_loss # NotRun
    /\ replica_nll[1] # replica_nll[2]
    /\ model_losses > 0
    /\ ~RatEq(KlScale, One)
    /\ L2Term[1] > 0

\* The same for an ImageNet step.
C2_WitnessImagenet ==
    /\ script = "imagenet"
    /\ num_replicas_in_sync > 1
    /\ reduced_loss # NotRun
    /\ replica_nll[1] # replica_nll[2]
    /\ L2Term[1] > 0

-----------------------------------------------------------------------------
(* batchensemble.py: the learning rate of the ImageNet script.             *)

APPROX_IMAGENET_TRAINING_IMAGES == 1281167

\* (multiplier, epoch to start) tuples
LR_SCHEDULE == << <<(<<1, 1>>), 5>>, <<(<<1, 10>>), 30>>,
                 <<(<<1, 100>>), 60>>, <<(<<1, 1000>>), 80>> >>

\* lines 132-137
BatchSize(flags) ==
    IF flags.version2
    THEN (flags.per_core_batch_size \div flags.num_models) * flags.num_cores
    ELSE flags.per_core_batch_size * flags.num_cores

\* lines 140-142; steps_per_epoch = 0 stands for the unset flag too.
StepsPerEpoch(flags) ==
    IF flags.steps_per_epoch = 0
    THEN APPROX_IMAGENET_TRAINING_IMAGES \div BatchSize(flags)
    ELSE flags.steps_per_epoch

\* line 185
BaseLr(flags) ==
    RatMul(RatMul(flags.base_learning_rate, <<BatchSize(flags), 1>>),
           <<1, 256>>)

\* A start epoch of the table taken as it is.
NotRescaled(start_epoch) == start_epoch

\* lines 100 and 105
Rescaled(start_epoch) == (start_epoch * im_FLAGS.num_epochs) \div 90

RECURSIVE ScheduleLoop(_, _, _)
\* lines 104-107, from entry i of the table on
ScheduleLoop(i, lr_epoch, learning_rate) ==
    IF i > Len(LR_SCHEDULE) THEN learning_rate
    ELSE LET mult == LR_SCHEDULE[i][1]
             start_epoch == Rescaled(LR_SCHEDULE[i][2])
         IN  ScheduleLoop(i + 1, lr_epoch,
                          IF RatLeq(<<start_epoch, 1>>, lr_epoch)
                          THEN RatMul(initial_learning_rate, mult)
                          ELSE learning_rate)

\* lines 97-108: ResnetLearningRateSchedule.__call__
ResnetLearningRateSchedule(s) ==
    LET lr_epoch == Div(s, im_steps_per_epoch)
        warmup_lr_multiplier == LR_SCHEDULE[1][1]
        warmup_end_epoch == Rescaled(LR_SCHEDULE[1][2])
        learning_rate ==
            RatMul(RatMul(RatMul(initial_learning_rate, warmup_lr_multiplier),
                          lr_epoch),
                   <<1, warmup_end_epoch>>)
    IN  ScheduleLoop(1, lr_epoch, learning_rate)

ImagenetFlagValues ==
    [per_core_batch_size : {64, 128, 256},
     num_cores : {1, 2},
     num_models : {1, 2},
     version2 : BOOLEAN,
     base_learning_rate : {<<1, 10>>},
     num_epochs : {9, 18, 20},
     steps_per_epoch : 1..MaxStepsPerEpoch]

\* lines 123-218: main() up to the epoch loop, without a checkpoint.
LrInit ==
    /\ im_FLAGS \in ImagenetFlagValues
    /\ batch_size = BatchSize(im_FLAGS)
    /\ im_steps_per_epoch = StepsPerEpoch(im_FLAGS)
    /\ initial_learning_rate = BaseLr(im_FLAGS)
    /\ im_iterations = 0
    /\ lr_log = <<>>
    /\ CifarIdle
    /\ LossIdle
    /\ TestIdle
    /\ WrnIdle
    /\ KlIdle
    /\ GradIdle

\* lines 322-326 with 273/275: one train step; the optimizer asks the
\* schedule for the rate of step optimizer.iterations, then counts the step.
ImagenetTrainStep ==
    /\ im_iterations < im_FLAGS.num_epochs * im_steps_per_epoch
    /\ lr_log' = Put(lr_log, im_iterations,
                     ResnetLearningRateSchedule(im_iterations))
    /\ im_iterations' = im_iterations + 1
    /\ UNCHANGED <<im_FLAGS, batch_size, im_steps_per_epoch,
                   initial_learning_rate>>
    /\ UNCHANGED notLr

LrNext == ImagenetTrainStep

SpecLr == LrInit /\ [][LrNext]_vars

\* C5: the initial learning rate handed to the schedule is
\* base_learning_rate * batch_size / 128: base_learning_rate itself at a
\* global train batch size of 128, and linear in the batch size.
C5_BaseLearningRate ==
    /\ batch_size = 128 =>
          RatEq(initial_learning_rate, im_FLAGS.base_learning_rate)
    /\ RatEq(initial_learning_rate,
             RatMul(im_FLAGS.base_learning_rate, <<batch_size, 128>>))

\* What the code does: base_learning_rate is the rate at batch size 256.
C5_CodeScalesBy256 ==
    /\ batch_size = 256 =>
          RatEq(initial_learning_rate, im_FLAGS.base_learning_rate)
    /\ RatEq(initial_learning_rate,
             RatMul(im_FLAGS.base_learning_rate, <<batch_size, 256>>))

\* The start epoch of table entry i, rescaled to the run's num_epochs.
StartOf(i) == (LR_SCHEDULE[i][2] * im_FLAGS.num_epochs) \div 90

\* The rate of step s, read off the rescaled table.
ClaimedRate(s) ==
    LET warmup_end == StartOf(1)
        started == {i \in 1..Len(LR_SCHEDULE) :
                      StartOf(i) * im_steps_per_epoch <= s}
        last == CHOOSE i \in started : \A j \in started : j <= i
    IN  IF s < warmup_end * im_steps_per_epoch
        THEN RatMul(initial_learning_rate,
                    <<s, im_steps_per_epoch * warmup_end>>)
        ELSE RatMul(initial_learning_rate, LR_SCHEDULE[last][1])

\* C6: with every start epoch E of _LR_SCHEDULE rescaled to
\* (E * num_epochs) // 90 and t = s / steps_per_epoch, the rate of step s is
\* initial_learning_rate * t / warmup_end while t is below the rescaled first
\* start epoch (so 0 at step 0 of a warmup), and otherwise
\* initial_learning_rate times the multiplier of the last entry whose
\* rescaled start epoch is <= t.
C6_LearningRateSchedule ==
    \A s \in DOMAIN lr_log :
        /\ lr_log[s][2] > 0
        /\ RatEq(lr_log[s], ClaimedRate(s))
        /\ (s = 0 /\ StartOf(1) > 0) => lr_log[s][1] = 0

\* A run of 20 epochs (start epochs 1, 6, 13, 17 after the rescaling) has
\* passed a warmup step and a step of each of the four multipliers.
C6_Witness ==
    /\ im_FLAGS.num_epochs = 20
    /\ im_steps_per_epoch = 2
    /\ \E s \in DOMAIN lr_log :
          /\ lr_log[s][1] > 0
          /\ ~RatLeq(initial_learning_rate, lr_log[s])
          /\ s < 2
    /\ \A i \in 1..Len(LR_SCHEDULE) :
          \E s \in DOMAIN lr_log :
             /\ s >= 2
             /\ RatEq(lr_log[s],
                      RatMul(initial_learning_rate, LR_SCHEDULE[i][1]))

\* A run of 9 epochs has no warmup: the first start epoch rescales to 0.
C6_WitnessNoWarmup ==
    /\ im_FLAGS.num_epochs = 9
    /\ 0 \in DOMAIN lr_log
    /\ RatEq(lr_log[0], initial_learning_rate)

-----------------------------------------------------------------------------
(* variational_inference.py lines 432-466: test_step.                      *)

\* What one call of the model can return for a batch of one example with
\* two classes: its logits, each kept as exp(logit) so that the softmax is
\* exact.  Flipout samples the weights anew in every call.
ModelOutputs == {<<1, 1>>, <<1, 3>>, <<2, 1>>}

\* The samples taken on every dataset, the clean one included.
NumModelCallsAnyDataset(name) ==
    IF FLAGS.num_eval_samples > 1 THEN FLAGS.num_eval_samples ELSE 1

\* lines 440-444: how often the model is called.
NumModelCalls(name) ==
    IF FLAGS.num_eval_samples > 1 /\ name # Clean
    THEN FLAGS.num_eval_samples
    ELSE 1

\* tf.nn.softmax over the classes of one row of logits.
Softmax(w) == [c \in 1..Len(w) |-> Div(w[c], Sum(w))]

\* tf.reduce_mean(rows, axis=0)
ReduceMean0(rows) ==
    [c \in 1..Len(rows[1]) |->
        RatMul(RatSum([i \in 1..Len(rows) |-> rows[i][c]]),
               <<1, Len(rows)>>)]

\* lines 440-449: `probs` from the logits of the calls.
Probs(name, calls) ==
    IF FLAGS.num_eval_samples > 1 /\ name # Clean
    THEN ReduceMean0([i \in 1..Len(calls) |-> Softmax(calls[i])])
    ELSE Softmax(calls[1])

TestDatasetNames == {test_datasets[i] : i \in 1..Len(test_datasets)}

TestFlagValues ==
    [num_eval_samples : 0..MaxEvalSamples,
     corruptions_interval : {1},
     train_epochs : {1},
     kl_annealing_epochs : {1},
     checkpoint_interval : {-1}]

TestInit ==
    /\ FLAGS \in TestFlagValues
    /\ test_datasets = LoadTestDatasets(FLAGS)
    /\ metrics = NewMetrics
    /\ corrupt_metrics = NewCorruptMetrics(FLAGS)
    /\ TestIdle
    /\ LossIdle
    /\ LrIdle
    /\ WrnIdle
    /\ KlIdle
    /\ GradIdle
    \* the rest of main() is not part of this specification
    /\ steps_per_epoch = 1
    /\ steps_per_eval = MaxTestSteps
    /\ pc = "eval"
    /\ epoch = 0
    /\ step = 0
    /\ global_step = 0
    /\ iterations = 0
    /\ latest_checkpoint = NoCheckpoint
    /\ restarts = 0
    /\ to_evaluate = <<>>
    /\ error = "none"
    /\ kl_log = <<>>
    /\ eval_log = <<>>
    /\ summary = <<>>
    /\ ckpt_log = <<>>

\* lines 432-466: one test step on dataset `name`; the model returns
\* `calls`, one entry per call.
TestStep(name, calls) ==
    /\ test_steps < MaxTestSteps
    /\ Len(calls) = NumModelCalls(name)
    /\ last_dataset' = name
    /\ model_calls' = calls
    /\ probs' = Probs(name, calls)
    /\ metrics' = Bump(metrics, TestStepUpdates(name).clean)
    /\ corrupt_metrics' = Bump(corrupt_metrics, TestStepUpdates(name).corrupt)
    /\ updated' = [clean |-> {n \in DOMAIN metrics : metrics'[n] # metrics[n]},
                   corrupt |-> {k \in DOMAIN corrupt_metrics :
                                  corrupt_metrics'[k] # corrupt_metrics[k]}]
    /\ test_steps' = test_steps + 1
    /\ UNCHANGED <<FLAGS, steps_per_epoch, steps_per_eval, pc, epoch, step,
                   global_step, iterations, latest_checkpoint, restarts,
                   test_datasets, to_evaluate, error, kl_log, eval_log,
                   summary, ckpt_log>>
    /\ UNCHANGED notTest

TestNext ==
    \E name \in TestDatasetNames :
        \E calls \in Seqs(ModelOutputs, NumModelCalls(name)) :
            TestStep(name, calls)

SpecTest == TestInit /\ [][TestNext]_vars

\* The three corrupt metrics of dataset `name`.
CorruptMetricsOf(name) ==
    {<<"test/nll", name[1], name[2]>>, <<"test/accuracy", name[1], name[2]>>,
     <<"test/ece", name[1], name[2]>>}

\* The sum over the calls of the softmax probability of class c.
RECURSIVE SoftmaxTotal(_, _)
SoftmaxTotal(calls, c) ==
    IF calls = <<>> THEN <<0, 1>>
    ELSE RatAdd(<<Head(calls)[c], Head(calls)[1] + Head(calls)[2]>>,
                SoftmaxTotal(Tail(calls), c))

\* C7: a test step on 'clean' calls the model exactly once whatever
\* num_eval_samples is; on another dataset with num_eval_samples > 1 it calls
\* the model num_eval_samples times and its probabilities are the mean of
\* the per-call softmax probabilities; the step updates the three clean test
\* metrics if the dataset is 'clean', and otherwise the three corrupt metrics
\* of that dataset and no other metric.
C7_TestStep ==
    test_steps > 0 =>
      /\ last_dataset = Clean => Len(model_calls) = 1
      /\ (last_dataset # Clean /\ FLAGS.num_eval_samples > 1) =>
            /\ Len(model_calls) = FLAGS.num_eval_samples
            /\ \A c \in 1..2 :
                  /\ probs[c][2] > 0
                  /\ RatEq(RatMul(probs[c], <<FLAGS.num_eval_samples, 1>>),
                           SoftmaxTotal(model_calls, c))
      /\ last_dataset = Clean =>
            updated = [clean |-> {"test/negative_log_likelihood",
                                  "test/accuracy", "test/ece"},
                       corrupt |-> {}]
      /\ last_dataset # Clean =>
            updated = [clean |-> {},
                       corrupt |-> CorruptMetricsOf(last_dataset)]
      /\ \A n \in DOMAIN metrics :
            metrics[n] > 0 => n \in {"test/negative_log_likelihood",
                                     "test/accuracy", "test/ece"}
      /\ \A k \in DOMAIN corrupt_metrics :
            corrupt_metrics[k] > 0 => <<k[2], k[3]>> # Clean

\* A step on a corrupted dataset with two differing samples, after a step on
\* the clean dataset.
C7_Witness ==
    /\ test_steps = 2
    /\ FLAGS.num_eval_samples = 2
    /\ last_dataset # Clean
    /\ Len(model_calls) = 2
    /\ model_calls[1] # model_calls[2]
    /\ metrics["test/ece"] = 1
    /\ updated.corrupt # {}

\* A step on the clean dataset with num_eval_samples = 2.
C7_WitnessClean ==
    /\ FLAGS.num_eval_samples = 2
    /\ last_dataset = Clean
    /\ Len(model_calls) = 1

-----------------------------------------------------------------------------
(* variational_inference.py lines 127-242: basic_block, group, wide_resnet. *)

Layer(type, filters, kernel_size, strides) ==
    [type |-> type, filters |-> filters, kernel_size |-> kernel_size,
     strides |-> strides]

\* lines 95-99: Conv2DFlipout, kernel_size=3 unless given, padding='same'
Conv2DFlipout(filters, kernel_size, strides) ==
    Layer("Conv2DFlipout", filters, kernel_size, strides)

BatchNormalization == Layer("BatchNormalization", 0, 0, 0)
Activation == Layer("Activation", 0, 0, 0)
Add == Layer("Add", 0, 0, 0)

\* The output shape of a convolution with padding='same'.
ConvShape(shape, filters, strides) ==
    <<(shape[1] + strides - 1) \div strides, filters>>

\* x.shape.is_compatible_with(y.shape), all but the batch dimension known
IsCompatibleWith(a, b) == a = b

\* lines 127-175: the layers basic_block creates on an input of shape
\* `shape`.
BasicBlockLayers(shape, filters, strides) ==
    LET y_shape == ConvShape(ConvShape(shape, filters, strides), filters, 1)
        main == <<BatchNormalization, Activation,
                  Conv2DFlipout(filters, 3, strides),
                  BatchNormalization, Activation,
                  Conv2DFlipout(filters, 3, 1)>>
    IN  IF ~IsCompatibleWith(shape, y_shape)
        THEN main \o <<Conv2DFlipout(filters, 1, strides), Add>>
        ELSE main \o <<Add>>

\* lines 127-175: the shape basic_block returns.
BasicBlockShape(shape, filters, strides) ==
    ConvShape(ConvShape(shape, filters, strides), filters, 1)

\* line 222: zip([1, 2, 2], [16, 32, 64])
GroupStrides == <<1, 2, 2>>
GroupFilters == <<16, 32, 64>>

\* ds_info.features['image'].shape of CIFAR: 32 x 32 x 3
InputShape == <<32, 3>>

WrnInit ==
    /\ depth \in -2..MaxDepth
    /\ width_multiplier \in 1..MaxWidthMultiplier
    /\ wrn_pc = "call"
    /\ layers = <<>>
    /\ blocks = <<>>
    /\ x_shape = InputShape
    /\ group_index = 0
    /\ blocks_left = 0
    /\ CifarIdle
    /\ LossIdle
    /\ LrIdle
    /\ TestIdle
    /\ KlIdle
    /\ GradIdle

\* lines 210-221: the depth test and the first convolution.
WideResnetBegin ==
    /\ wrn_pc = "call"
    /\ IF PyMod(depth - 4, 6).value # 0
       THEN /\ wrn_pc' = "raised"
            /\ UNCHANGED <<layers, x_shape, group_index>>
       ELSE /\ wrn_pc' = "groups"
            /\ layers' = <<Conv2DFlipout(16, 3, 1)>>
            /\ x_shape' = ConvShape(x_shape, 16, 1)
            /\ group_index' = 1
    /\ UNCHANGED <<depth, width_multiplier, blocks, blocks_left>>
    /\ UNCHANGED notWrn

\* lines 222-229 with line 180: the next group starts; its first block is
\* built with the strides of the group.
GroupFirstBlock ==
    /\ wrn_pc = "groups"
    /\ blocks_left = 0
    /\ group_index <= Len(GroupStrides)
    /\ LET filters == GroupFilters[group_index] * width_multiplier
           strides == GroupStrides[group_index]
           num_blocks == (depth - 4) \div 6
       IN  /\ layers' = layers \o BasicBlockLayers(x_shape, filters, strides)
           /\ x_shape' = BasicBlockShape(x_shape, filters, strides)
           /\ blocks' = Append(blocks, [group |-> group_index,
                                        strides |-> strides])
           /\ IF num_blocks - 1 > 0
              THEN /\ blocks_left' = num_blocks - 1
                   /\ UNCHANGED group_index
              ELSE /\ blocks_left' = 0
                   /\ group_index' = group_index + 1
    /\ UNCHANGED <<depth, width_multiplier, wrn_pc>>
    /\ UNCHANGED notWrn

\* lines 181-182: one of the other num_blocks - 1 blocks of the group.
GroupNextBlock ==
    /\ wrn_pc = "groups"
    /\ blocks_left > 0
    /\ LET filters == GroupFilters[group_index] * width_multiplier
       IN  /\ layers' = layers \o BasicBlockLayers(x_shape, filters, 1)
           /\ x_shape' = BasicBlockShape(x_shape, filters, 1)
           /\ blocks' = Append(blocks, [group |-> group_index, strides |-> 1])
    /\ blocks_left' = blocks_left - 1
    /\ group_index' = IF blocks_left = 1 THEN group_index + 1
                      ELSE group_index
    /\ UNCHANGED <<depth, width_multiplier, wrn_pc>>
    /\ UNCHANGED notWrn

\* lines 231-242: the head of the network.
WideResnetFinish ==
    /\ wrn_pc = "groups"
    /\ blocks_left = 0
    /\ group_index > Len(GroupStrides)
    /\ layers' = layers \o <<BatchNormalization, Activation,
                              Layer("AveragePooling2D", 0, 8, 0),
                              Layer("Flatten", 0, 0, 0),
                              Layer("DenseFlipout", 0, 0, 0)>>
    /\ wrn_pc' = "built"
    /\ UNCHANGED <<depth, width_multiplier, blocks, x_shape, group_index,
                   blocks_left>>
    /\ UNCHANGED notWrn

WrnNext ==
    \/ WideResnetBegin
    \/ GroupFirstBlock
    \/ GroupNextBlock
    \/ WideResnetFinish

SpecWrn == WrnInit /\ [][WrnNext]_vars

NumConvLayers ==
    Cardinality({i \in 1..Len(layers) : layers[i].type = "Conv2DFlipout"})

BlocksOfGroup(g) == {i \in 1..Len(blocks) : blocks[i].group = g}

\* C8: for every accepted depth and every positive width_multiplier the
\* model built has exactly `depth` Conv2DFlipout layers (the first
\* convolution, two per basic block, and the 1x1 shortcuts), the final dense
\* layer not counted.
C8_DepthCountsConvLayers ==
    wrn_pc = "built" => NumConvLayers = depth

\* What the code builds: `depth` convolutions when there is at least one
\* block per group by the formula (depth >= 10) and the first group widens
\* its input (width_multiplier > 1); one less with width_multiplier = 1.
C8_CodeConvLayers ==
    (wrn_pc = "built" /\ depth >= 10) =>
        NumConvLayers = IF width_multiplier > 1 THEN depth ELSE depth - 1

\* C9: wide_resnet raises before it creates a layer whenever
\* (depth - 4) % 6 # 0; for every other depth it builds three groups of
\* (depth - 4) // 6 basic blocks each, the first block of the groups with
\* strides 1, 2, 2 and every later block with stride 1.
C9_DepthCheckAndGroups ==
    /\ wrn_pc = "raised" => (layers = <<>> /\ PyMod(depth - 4, 6).value # 0)
    /\ (wrn_pc # "call" /\ PyMod(depth - 4, 6).value # 0) =>
          (wrn_pc = "raised" /\ layers = <<>>)
    /\ wrn_pc = "built" =>
          /\ \A g \in 1..3 :
                Cardinality(BlocksOfGroup(g)) = (depth - 4) \div 6
          /\ \A i \in 1..Len(blocks) :
                /\ blocks[i].group \in 1..3
                /\ blocks[i].strides =
                      IF \A j \in BlocksOfGroup(blocks[i].group) : i <= j
                      THEN <<1, 2, 2>>[blocks[i].group]
                      ELSE 1

\* What the code builds: group() always builds its first block, so a depth
\* of 4 or less that passes the test gets one block per group.
C9_CodeGroups ==
    /\ wrn_pc = "raised" => (layers = <<>> /\ PyMod(depth - 4, 6).value # 0)
    /\ (wrn_pc # "call" /\ PyMod(depth - 4, 6).value # 0) =>
          (wrn_pc = "raised" /\ layers = <<>>)
    /\ wrn_pc = "built" =>
          /\ \A g \in 1..3 :
                Cardinality(BlocksOfGroup(g)) =
                    IF depth >= 10 THEN (depth - 4) \div 6 ELSE 1
          /\ \A i \in 1..Len(blocks) :
                /\ blocks[i].group \in 1..3
                /\ blocks[i].strides =
                      IF \A j \in BlocksOfGroup(blocks[i].group) : i <= j
                      THEN <<1, 2, 2>>[blocks[i].group]
                      ELSE 1

-----------------------------------------------------------------------------
(* variational_inference.py lines 102-124: NormalKLDivergenceWithTiedMean. *)
(* A KL value is kept exact as factor * (ln(log_arg) + rat), the three     *)
(* parts rationals.                                                        *)

\* KL(Normal(loc1, scale1) || Normal(loc2, scale2)) of one element:
\* ln(scale2 / scale1) + (scale1^2 + (loc1 - loc2)^2) / (2 scale2^2) - 1/2
NormalKL(loc1, scale1, loc2, scale2) ==
    [log_arg |-> <<scale2, scale1>>,
     rat |-> RatAdd(<<scale1 * scale1 + (loc1 - loc2) * (loc1 - loc2),
                      2 * scale2 * scale2>>,
                    <<-1, 2>>)]

RECURSIVE IndependentKL(_, _, _, _)
\* The KL of two Independent normals: the sum over the event dimensions.
IndependentKL(loc1, scale1, loc2, scale2) ==
    IF loc1 = <<>> THEN [log_arg |-> <<1, 1>>, rat |-> <<0, 1>>]
    ELSE LET h == NormalKL(Head(loc1), Head(scale1), Head(loc2), Head(scale2))
             t == IndependentKL(Tail(loc1), Tail(scale1), Tail(loc2),
                                Tail(scale2))
         IN  [log_arg |-> RatMul(h.log_arg, t.log_arg),
              rat |-> RatAdd(h.rat, t.rat)]

\* A prior centred at zero whatever the posterior's mean is.
ZeroPriorLoc(x) == [i \in 1..Len(x.loc) |-> 0]

\* line 115: loc=x.distribution.mean()
PriorLoc(x) == x.loc

\* line 115: scale=self.stddev, broadcast over the event
PriorScale(x) == [i \in 1..Len(x.loc) |-> regularizer.stddev]

\* lines 110-118: __call__
Regularization(x) ==
    IF ~x.is_random_variable
    THEN [raised |-> "ValueError", factor |-> <<0, 1>>,
          log_arg |-> <<1, 1>>, rat |-> <<0, 1>>]
    ELSE LET kl == IndependentKL(x.loc, x.scale, PriorLoc(x), PriorScale(x))
         IN  [raised |-> "none", factor |-> regularizer.scale_factor,
              log_arg |-> kl.log_arg, rat |-> kl.rat]

\* The inputs of the regularizer: normal posteriors over two weights, and a
\* plain tensor.
KlInputs ==
    [is_random_variable : {TRUE}, loc : Seqs({0, 2}, 2),
     scale : Seqs({1, 2}, 2)]
    \cup {[is_random_variable |-> FALSE, loc |-> <<0, 0>>,
           scale |-> <<0, 0>>]}

\* lines 105-108: __init__; scale_factor is 1. / dataset_size
KlInit ==
    /\ regularizer \in [stddev : {1, 3}, scale_factor : {<<1, 1>>, <<1, 5>>}]
    /\ kl_calls = {}
    /\ CifarIdle
    /\ LossIdle
    /\ LrIdle
    /\ TestIdle
    /\ WrnIdle
    /\ GradIdle

RegularizerCall(x) ==
    /\ Cardinality(kl_calls) < MaxKlCalls
    /\ kl_calls' = kl_calls \cup {[x |-> x, result |-> Regularization(x)]}
    /\ UNCHANGED regularizer
    /\ UNCHANGED notKl

KlNext == \E x \in KlInputs : RegularizerCall(x)

SpecKl == KlInit /\ [][KlNext]_vars

SameValue(a, b) ==
    /\ a.raised = b.raised
    /\ RatEq(a.factor, b.factor)
    /\ RatEq(a.log_arg, b.log_arg)
    /\ RatEq(a.rat, b.rat)

\* scale_factor * KL(Normal(m, scale) || Normal(m, stddev)), which has no
\* term in the mean: for two weights,
\* ln(stddev^2 / (s1 s2)) + (s1^2 + s2^2) / (2 stddev^2) - 1
KlToFixedStddev(scale) ==
    [raised |-> "none",
     factor |-> regularizer.scale_factor,
     log_arg |-> <<regularizer.stddev * regularizer.stddev,
                   scale[1] * scale[2]>>,
     rat |-> RatAdd(<<scale[1] * scale[1] + scale[2] * scale[2],
                      2 * regularizer.stddev * regularizer.stddev>>,
                    <<-1, 1>>)]

\* C10: the regularizer's value is scale_factor times the KL to a normal
\* with the fixed stddev and the posterior's own mean, so two posteriors
\* with the same standard deviations and different means get the same
\* value; an input that is no ed.RandomVariable raises ValueError.
C10_TiedMeanKL ==
    /\ \A c \in kl_calls :
          /\ ~c.x.is_random_variable => c.result.raised = "ValueError"
          /\ c.x.is_random_variable =>
                /\ c.result.log_arg[2] > 0
                /\ c.result.rat[2] > 0
                /\ SameValue(c.result, KlToFixedStddev(c.x.scale))
    /\ \A c, d \in kl_calls :
          (/\ c.x.is_random_variable
           /\ d.x.is_random_variable
           /\ c.x.scale = d.x.scale) => SameValue(c.result, d.result)

\* Two posteriors with the same standard deviations and different means
\* have been given to the regularizer, and their KL is not zero.
C10_Witness ==
    \E c, d \in kl_calls :
        /\ c.x.is_random_variable
        /\ d.x.is_random_variable
        /\ c.x.scale = d.x.scale
        /\ c.x.loc # d.x.loc
        /\ ~RatEq(c.result.log_arg, <<1, 1>>)
        /\ regularizer.scale_factor # <<1, 1>>

\* A plain tensor has been given to the regularizer.
C10_WitnessRaise ==
    \E c \in kl_calls :
        ~c.x.is_random_variable /\ c.result.raised = "ValueError"

-----------------------------------------------------------------------------
(* batchensemble.py lines 258-275: the gradients of one train_step and the *)
(* separate learning rate of the fast weights.                             *)

\* The substrings, of those step_fn looks for, that the name of a variable
\* holds.
NameSubstrings ==
    [conv1_kernel |-> {},
     conv1_alpha |-> {"alpha"},
     conv1_gamma |-> {"gamma"},
     fc1000_bias |-> {"bias"},
     bn_conv1_gamma |-> {"bn", "gamma"},
     bn_conv1_beta |-> {"bn"},
     batch_norm_bn_gamma |-> {"bn", "batch_norm", "gamma"}]

\* sub in var.name
InName(sub, var) == sub \in NameSubstrings[var]

\* line 265: the test the outer `if` makes
OuterTest(var) == ~InName("bn", var) \/ ~InName("batch_norm", var)

\* lines 266-267: the test the inner `if` makes
InnerTest(var) ==
    InName("alpha", var) \/ InName("gamma", var) \/ InName("bias", var)

\* lines 265-272: the pair one pass of the loop appends to grad_list
GradAndVar(vec, var) ==
    IF OuterTest(var)
    THEN IF InnerTest(var)
         THEN [vec |-> RatMul(<<vec, 1>>, fast_weight_lr_multiplier),
               var |-> var]
         ELSE [vec |-> <<vec, 1>>, var |-> var]
    ELSE [vec |-> <<vec, 1>>, var |-> var]

\* zip(grads, model.trainable_variables)
Zip(g, v) ==
    [i \in 1..(IF Len(g) < Len(v) THEN Len(g) ELSE Len(v)) |->
        [vec |-> <<g[i], 1>>, var |-> v[i]]]

\* The sequences over S of length 1..n without repetition.
DistinctSeqs(S, n) ==
    {q \in UNION {Seqs(S, k) : k \in 1..n} :
        \A i, j \in 1..Len(q) : q[i] = q[j] => i = j}

\* line 258: tape.gradient returns one gradient per trainable variable
GradInit ==
    /\ fast_weight_lr_multiplier \in {<<1, 1>>, <<2, 1>>, <<1, 2>>}
    /\ model_variables \in DistinctSeqs(DOMAIN NameSubstrings, MaxVariables)
    /\ grads \in UNION {Seqs({-2, 1}, k) : k \in 1..MaxVariables}
    /\ Len(grads) = Len(model_variables)
    /\ grad_list = <<>>
    /\ applied = <<>>
    /\ apply_calls = 0
    /\ CifarIdle
    /\ LossIdle
    /\ LrIdle
    /\ TestIdle
    /\ WrnIdle
    /\ KlIdle

\* lines 261-273: FLAGS.fast_weight_lr_multiplier != 1.0
ApplyGradList ==
    /\ apply_calls = 0
    /\ ~RatEq(fast_weight_lr_multiplier, One)
    /\ grad_list' = [i \in 1..Len(Zip(grads, model_variables)) |->
                        GradAndVar(grads[i], model_variables[i])]
    /\ applied' = grad_list'
    /\ apply_calls' = apply_calls + 1
    /\ UNCHANGED <<fast_weight_lr_multiplier, model_variables, grads>>
    /\ UNCHANGED notGrad

\* lines 274-275: the multiplier is 1.0
ApplyGrads ==
    /\ apply_calls = 0
    /\ RatEq(fast_weight_lr_multiplier, One)
    /\ applied' = Zip(grads, model_variables)
    /\ apply_calls' = apply_calls + 1
    /\ UNCHANGED <<fast_weight_lr_multiplier, model_variables, grads,
                   grad_list>>
    /\ UNCHANGED notGrad

GradNext == ApplyGradList \/ ApplyGrads

SpecGrad == GradInit /\ [][GradNext]_vars

\* A fast weight: a variable whose name holds 'alpha', 'gamma' or 'bias'.
IsFastWeight(var) ==
    InName("alpha", var) \/ InName("gamma", var) \/ InName("bias", var)

\* A batch-norm variable: its name holds 'bn' or 'batch_norm'.
IsBatchNorm(var) == InName("bn", var) \/ InName("batch_norm", var)

\* Every trainable variable has exactly one gradient in the list handed to
\* optimizer.apply_gradients.
OneGradientEach ==
    /\ Len(applied) = Len(model_variables)
    /\ \A i \in 1..Len(applied) : applied[i].var = model_variables[i]
    /\ \A i, j \in 1..Len(applied) :
          applied[i].var = applied[j].var => i = j

\* C11: the gradient handed to the optimizer is the variable's gradient
\* times fast_weight_lr_multiplier exactly when the variable is a fast
\* weight (name holds 'alpha', 'gamma' or 'bias') and not a batch-norm
\* variable (name holds 'bn' or 'batch_norm'); every other gradient is
\* handed over as it is, and in both branches every trainable variable has
\* exactly one gradient in the list.
C11_FastWeightGradients ==
    apply_calls = 1 =>
        /\ OneGradientEach
        /\ \A i \in 1..Len(applied) :
              RatEq(applied[i].vec,
                    IF /\ IsFastWeight(applied[i].var)
                       /\ ~IsBatchNorm(applied[i].var)
                    THEN RatMul(<<grads[i], 1>>, fast_weight_lr_multiplier)
                    ELSE <<grads[i], 1>>)

\* What the code does: the outer test of line 265 only fails for a name
\* that holds both 'bn' and 'batch_norm', so the gradient of every other
\* fast weight is scaled, a batch-norm gamma like any other.
C11_CodeScalesBatchNormToo ==
    apply_calls = 1 =>
        /\ OneGradientEach
        /\ \A i \in 1..Len(applied) :
              RatEq(applied[i].vec,
                    IF /\ IsFastWeight(applied[i].var)
                       /\ ~(/\ InName("bn", applied[i].var)
                            /\ InName("batch_norm", applied[i].var))
                    THEN RatMul(<<grads[i], 1>>, fast_weight_lr_multiplier)
                    ELSE <<grads[i], 1>>)

\* The gradient of a batch-norm gamma has been handed over scaled.
C11_BatchNormGammaScaled ==
    /\ apply_calls = 1
    /\ ~RatEq(fast_weight_lr_multiplier, One)
    /\ \E i \in 1..Len(applied) :
          /\ applied[i].var = "bn_conv1_gamma"
          /\ ~RatEq(applied[i].vec, <<grads[i], 1>>)

\* Both branches hand over one gradient per variable, and a fast weight
\* that is no batch-norm variable gets its gradient scaled.
C11_FastWeightScaled ==
    /\ apply_calls = 1
    /\ \E i \in 1..Len(applied) :
          /\ applied[i].var = "conv1_alpha"
          /\ ~RatEq(applied[i].vec, <<grads[i], 1>>)

====
